---- MODULE Spec2Model ----
(***************************************************************************)
(* The LLM batch-annotation drivers of the repository:                     *)
(*   src/code/llm_yesno_batch.py     (driver "llm":    skip/only filters,  *)
(*                                    API key read inside the provider     *)
(*                                    call)                                *)
(*   src/code/gemini_yesno_batch.py  (driver "gemini": no filters, API key *)
(*                                    read at startup, json.loads without  *)
(*                                    fallback, lenient normalizer)        *)
(* A run is main(): it reads the input rows in order, filters them, calls  *)
(* the provider with bounded retries, appends one record per processed row *)
(* to the output file and sleeps.  The output file outlives a run; the     *)
(* process may be killed at any point and the driver started again.        *)
(*                                                                         *)
(* Strings the code trims or splits (ids, id lists, justifications) are    *)
(* sequences of one-character strings.  JSON values are tagged records.    *)
(***************************************************************************)
EXTENDS Integers, Sequences, FiniteSets, TLC

\* ------------------------------------------------------------- bounds
\* Longest input file (rows), number of driver runs on one output file, and
\* the largest --max-retries value tried.
MaxRows == 2
MaxRuns == 2
MaxRetriesArg == 2
\* Longest response text given to parse_json_strict on its own.
MaxText == 5
\* Longest text and largest chunk size given to _chunk_text_by_chars on its own.
MaxChunkText == 4
MaxChunkSize == 3
\* Most chunks of the article given to the chunked call_gemini.
MaxChunks == 2
\* Largest --max-retries of the runs whose backoff sleeps are followed.
MaxBackoffRetries == 7
\* Longest article text, in pieces, given to build_user_prompt.
MaxPromptText == 4

\* ---------------------------------------------------------- questions
QIDS ==
  << "A1", "A2", "A3", "A4", "A5", "A6", "A7", "A8", "A9", "A10",
     "B1", "B2", "B3", "B4", "B5", "B6", "B7", "B8", "B9", "B10" >>

QidSet == { QIDS[i] : i \in 1..Len(QIDS) }

\* {qid: 0 for qid in QIDS}
AllZero == [q \in QidSet |-> 0]

\* ------------------------------------------------------------ strings
IsSpace(c) == c = " "

RECURSIVE LStrip(_)
LStrip(s) ==
  IF s # <<>> /\ IsSpace(Head(s)) THEN LStrip(Tail(s)) ELSE s

RECURSIVE RStrip(_)
RStrip(s) ==
  IF s # <<>> /\ IsSpace(s[Len(s)]) THEN RStrip(SubSeq(s, 1, Len(s) - 1)) ELSE s

\* str.strip()
Strip(s) == RStrip(LStrip(s))

\* s.split(","): the parts between commas, empty parts kept
RECURSIVE SplitComma(_, _)
SplitComma(s, cur) ==
  IF s = <<>> THEN << cur >>
  ELSE IF Head(s) = "," THEN << cur >> \o SplitComma(Tail(s), <<>>)
  ELSE SplitComma(Tail(s), Append(cur, Head(s)))

parse_id_list(s) ==
  LET t == Strip(s)
      parts == SplitComma(t, <<>>)
  IN  IF t = <<>> THEN {}
      ELSE { Strip(parts[i]) : i \in 1..Len(parts) } \ { <<>> }

\* -------------------------------------------------------- JSON values
\* A JSON value as the normalizers see it: t is the Python type after
\* json.loads, n the number (a bool as 0/1, a float in tenths, so 15 is 1.5),
\* s the characters of a string.
JBool(b) == [t |-> "bool", n |-> IF b THEN 1 ELSE 0, s |-> <<>>]
JInt(n) == [t |-> "int", n |-> n, s |-> <<>>]
JFloat(tenths) == [t |-> "float", n |-> tenths, s |-> <<>>]
JNaN == [t |-> "nan", n |-> 0, s |-> <<>>]
JStr(s) == [t |-> "str", n |-> 0, s |-> s]
JNull == [t |-> "null", n |-> 0, s |-> <<>>]
JList == [t |-> "list", n |-> 0, s |-> <<>>]
JDict == [t |-> "dict", n |-> 0, s |-> <<>>]

\* A parsed response: top is "dict" or "list" (any non-mapping value);
\* has_answers / has_just say whether the keys are present; ans_dict whether
\* obj["answers"] is a mapping, and then ans is that mapping.
MkObj(top, has_answers, ans_dict, ans, has_just, just) ==
  [top |-> top, has_answers |-> has_answers, ans_dict |-> ans_dict,
   ans |-> ans, has_just |-> has_just, just |-> just]

\* dict.get(qid, 1)
DictGet_DefaultOne(ans, qid) == IF qid \in DOMAIN ans THEN ans[qid] ELSE JInt(1)

\* dict.get(qid, 0)
DictGet(ans, qid) == IF qid \in DOMAIN ans THEN ans[qid] ELSE JInt(0)

\* int(v) of a float given in tenths: truncation toward zero
IntOfTenths(n) == IF n >= 0 THEN n \div 10 ELSE -((-n) \div 10)

\* Results of a function that may raise: ok, or the exception's type name.
Ok(v) == [ok |-> TRUE, err |-> "", val |-> v]
Raise(e) == [ok |-> FALSE, err |-> e, val |-> [answers |-> AllZero, justification |-> <<>>]]

\* ------------------------------------------- llm_yesno_batch.normalize_answers
\* The chain with an int passed through as it is.
CoerceLlm_Raw(v) ==
  CASE v.t = "bool" -> (IF v.n = 1 THEN 1 ELSE 0)
    [] v.t = "int" -> v.n
    [] v.t = "float" -> (IF IntOfTenths(v.n) = 1 THEN 1 ELSE 0)
    [] v.t = "str" -> (IF Strip(v.s) = << "1" >> THEN 1 ELSE 0)
    [] OTHER -> 0

\* the if/elif chain of lines 138-145 for one value (int(nan) raises: see
\* normalize_answers_llm)
CoerceLlm(v) ==
  CASE v.t = "bool" -> (IF v.n = 1 THEN 1 ELSE 0)
    [] v.t = "int" -> (IF v.n = 1 THEN 1 ELSE 0)
    [] v.t = "float" -> (IF IntOfTenths(v.n) = 1 THEN 1 ELSE 0)
    [] v.t = "str" -> (IF Strip(v.s) = << "1" >> THEN 1 ELSE 0)
    [] OTHER -> 0

JustOf(obj) ==
  IF obj.has_just /\ obj.just.t = "str" THEN Strip(obj.just.s) ELSE <<>>

normalize_answers_llm(obj) ==
  IF obj.top # "dict" \/ ~obj.has_answers \/ ~obj.has_just
  THEN Raise("ValueError")
  ELSE IF ~obj.ans_dict THEN Raise("ValueError")
  ELSE IF \E q \in QidSet : DictGet(obj.ans, q).t = "nan" THEN Raise("ValueError")
  ELSE Ok([answers |-> [q \in QidSet |-> CoerceLlm(DictGet(obj.ans, q))],
           justification |-> JustOf(obj)])

\* ---------------------------------------- gemini_yesno_batch.normalize_answers
\* 1 if v == 1 or v is True or str(v).strip() == "1" else 0
CoerceGemini(v) ==
  IF \/ (v.t \in {"bool", "int"} /\ v.n = 1)
     \/ (v.t = "float" /\ v.n = 10)
     \/ (v.t = "str" /\ Strip(v.s) = << "1" >>)
  THEN 1 ELSE 0

normalize_answers_gemini(obj) ==
  Ok([answers |->
        IF obj.top = "dict" /\ (~obj.has_answers \/ obj.ans_dict)
        THEN [q \in QidSet |->
                CoerceGemini(IF obj.has_answers THEN DictGet(obj.ans, q) ELSE JInt(0))]
        ELSE AllZero,
      justification |-> IF obj.top = "dict" THEN JustOf(obj) ELSE <<>>])

\* ------------------------------------------------------- response text
\* The text a provider returns: "json" is exactly one JSON value, "wrapped"
\* the same value inside prose or a markdown fence, "garbage" text with no
\* JSON in it, "empty" the empty string.
MkText(kind, val) == [kind |-> kind, val |-> val]

\* llm_yesno_batch.parse_json_strict: direct parse, then the substring from
\* the first "{" to the last "}" (which exists only around a mapping)
parse_json_strict(text) ==
  CASE text.kind = "json" -> Ok(text.val)
    [] text.kind = "wrapped" ->
         (IF text.val.top = "dict" THEN Ok(text.val) ELSE Raise("JSONDecodeError"))
    [] OTHER -> Raise("JSONDecodeError")

\* gemini_yesno_batch: json.loads(raw_text), no fallback
json_loads(text) ==
  IF text.kind = "json" THEN Ok(text.val) ELSE Raise("JSONDecodeError")

\* ------------------------------------------------- sample inputs
\* Raw id values of input rows: two ids, one of them also with a trailing
\* blank, an id of one blank, and the "" that row.get gives for a row without
\* the id field.
RawIds == { << "x" >>, << "y" >>, << "y", " " >>, << " " >>, <<>> }

\* --skip-ids / --only-ids argument strings
SkipArgs == { <<>>, << " ", "x", "," >> }
OnlyArgs == { <<>>, << "x", ",", " ", "y" >>, << "y" >> }

Drivers == { "llm", "gemini" }

\* Command lines: every --max-retries from 0 (an empty retry range, as for a
\* negative value) to MaxRetriesArg without id lists, and every pair of id
\* lists with one attempt.  Only llm_yesno_batch has --skip-ids / --only-ids.
CommandLines(d) ==
  { [max_retries |-> n, skip |-> <<>>, only |-> <<>>] : n \in 0..MaxRetriesArg }
    \cup (IF d = "llm"
          THEN { [max_retries |-> 1, skip |-> sk, only |-> on] :
                   sk \in SkipArgs, on \in OnlyArgs }
          ELSE {})

RECURSIVE SeqsUpTo(_, _)
SeqsUpTo(S, n) ==
  IF n = 0 THEN { <<>> }
  ELSE LET shorter == SeqsUpTo(S, n - 1)
       IN  shorter \cup { Append(q, e) : q \in { t \in shorter : Len(t) = n - 1 }, e \in S }

\* Input files: up to MaxRows rows whose raw ids differ from one another
\* (the id is the identity of a row, unique per input file).
Inputs ==
  { f \in SeqsUpTo(RawIds, MaxRows) :
      \A i, j \in 1..Len(f) : i # j => f[i] # f[j] }

\* Parsed responses a provider may send.
ObjGood ==
  MkObj("dict", TRUE, TRUE,
        [q \in QidSet |-> IF q \in {"A1", "B10"} THEN JInt(1) ELSE JInt(0)],
        TRUE, JStr(<< " ", "o", "k", " " >>))

ObjOdd ==
  MkObj("dict", TRUE, TRUE,
        [q \in {"A2", "A3", "A4", "A5", "Z9"} |->
           CASE q = "A2" -> JBool(TRUE)
             [] q = "A3" -> JStr(<< " ", "1" >>)
             [] q = "A4" -> JInt(2)
             [] q = "A5" -> JList
             [] OTHER -> JInt(1)],
        TRUE, JNull)

ObjNoAnswers == MkObj("dict", FALSE, FALSE, << >>, TRUE, JStr(<< " " >>))

ObjList == MkObj("list", FALSE, FALSE, << >>, FALSE, JNull)

\* What one provider call may do: raise, or return one of these texts.
Texts ==
  { MkText("json", ObjGood), MkText("wrapped", ObjGood), MkText("json", ObjOdd),
    MkText("json", ObjNoAnswers), MkText("json", ObjList),
    MkText("garbage", ObjList), MkText("empty", ObjList) }

Outcomes ==
  { [raised |-> TRUE, text |-> MkText("empty", ObjList)] }
    \cup { [raised |-> FALSE, text |-> t] : t \in Texts }

\* ------------------------------------------------------ program state
VARIABLES
  driver,      \* which script runs: "llm" or "gemini"
  env_key,     \* the provider's API key is in the environment
  args,        \* parsed command line: max_retries, skip, only, resume, dry_run
  input,       \* the input file: the raw id of each row
  out_file,    \* the output file: the records appended so far
  run,         \* number of driver runs started on this output file
  pc,          \* where main() is
  skip_ids, only_ids, done_ids,   \* main's sets
  idx,         \* the row the loop is at
  attempt,     \* the retry loop's attempt
  parsed, last_err,               \* main's locals for the current row
  wrote,       \* main's counter
  natt,        \* passes through the retry loop's body for the current row
  called,      \* per row: the provider adapter was called in this run
  status,      \* per row: where the row is in this run
  fatal,       \* why the run aborted ("" if it did not)
  interrupted, \* the run before this one was killed
  fn_arg,      \* a function of the scripts called on its own: its arguments
  fn_ret       \* ... and what it has returned or raised so far

vars ==
  << driver, env_key, args, input, out_file, run, pc, skip_ids, only_ids,
     done_ids, idx, attempt, parsed, last_err, wrote, natt, called,
     status, fatal, interrupted, fn_arg, fn_ret >>

\* The variables of main()
main_vars ==
  << driver, env_key, args, input, out_file, run, pc, skip_ids, only_ids,
     done_ids, idx, attempt, parsed, last_err, wrote, natt, called,
     status, fatal, interrupted >>

\* Python's None for last_err / error (every real message starts with an
\* exception's type name)
Null == "null"

None == [some |-> FALSE, answers |-> AllZero, justification |-> <<>>]
Some(v) == [some |-> TRUE, answers |-> v.answers, justification |-> v.justification]

Rows == 1..Len(input)

Init ==
  /\ driver \in Drivers
  /\ env_key \in BOOLEAN
  /\ input \in Inputs
  /\ \E c \in CommandLines(driver) :
       args = [max_retries |-> c.max_retries, skip |-> c.skip, only |-> c.only,
               resume |-> FALSE, dry_run |-> FALSE, model |-> "m1"]
  /\ out_file = <<>>
  /\ run = 0
  /\ pc = "idle"
  /\ skip_ids = {} /\ only_ids = {} /\ done_ids = {}
  /\ idx = 1
  /\ attempt = 0
  /\ parsed = None
  /\ last_err = Null
  /\ wrote = 0
  /\ natt = 0
  /\ called = [i \in Rows |-> FALSE]
  /\ status = [i \in Rows |-> "PENDING"]
  /\ fatal = ""
  /\ interrupted = FALSE
  /\ fn_arg = "none" /\ fn_ret = "none"

\* No driver has been started: the state of main()'s variables while a
\* function is called on its own.
NoRun ==
  /\ driver = "llm" /\ env_key = TRUE
  /\ input = <<>>
  /\ args = [max_retries |-> 1, skip |-> <<>>, only |-> <<>>,
             resume |-> FALSE, dry_run |-> FALSE, model |-> "m1"]
  /\ out_file = <<>>
  /\ run = 0
  /\ pc = "idle"
  /\ skip_ids = {} /\ only_ids = {} /\ done_ids = {}
  /\ idx = 1
  /\ attempt = 0
  /\ parsed = None
  /\ last_err = Null
  /\ wrote = 0
  /\ natt = 0
  /\ called = [i \in Rows |-> FALSE]
  /\ status = [i \in Rows |-> "PENDING"]
  /\ fatal = ""
  /\ interrupted = FALSE

\* ------------------------------------------------------ output file
\* llm_yesno_batch.load_done_ids: every custom_id of the file
load_done_ids_llm(f) == { f[i].custom_id : i \in 1..Len(f) }

\* gemini_yesno_batch.load_done_ids: every non-empty custom_id of the file
load_done_ids_gemini(f) ==
  { f[i].custom_id : i \in { j \in 1..Len(f) : f[j].custom_id # <<>> } }

\* load_done_ids taking only the records without an error.
load_done_ids_SucceededOnly(f) ==
  { f[i].custom_id : i \in { j \in 1..Len(f) : f[j].error = Null } }

load_done_ids(f) ==
  IF driver = "llm" THEN load_done_ids_llm(f) ELSE load_done_ids_gemini(f)

\* append_jsonl with the file opened for writing instead of appending.
append_jsonl_Overwrites(f, row) == << row >>

\* append_jsonl: one whole line added at the end of the file
append_jsonl(f, row) == Append(f, row)

\* ------------------------------------------------------------- main()
\* str(row.get(args.id_field, "")).strip()
ArticleId(i) == Strip(input[i])

\* The id test left out.
MissingId_Never(i) == FALSE

\* "if not article_id: raise ValueError(...)"
MissingId(i) == ArticleId(i) = <<>>

\* Filtered with the skip list consulted only when no only list is given.
Filtered_SkipOnlyWithoutOnly(i) ==
  \/ (only_ids # {} /\ ArticleId(i) \notin only_ids)
  \/ (only_ids = {} /\ ArticleId(i) \in skip_ids)
  \/ (args.resume /\ ArticleId(i) \in done_ids)

\* The three "continue" tests that follow the id check.  The gemini script
\* has no --only-ids / --skip-ids, so its two sets are empty.
Filtered(i) ==
  \/ (only_ids # {} /\ ArticleId(i) \notin only_ids)
  \/ ArticleId(i) \in skip_ids
  \/ (args.resume /\ ArticleId(i) \in done_ids)

\* range(1, args.max_retries + 1) still has the value a
InRange(a) == a <= args.max_retries

\* require_env: RuntimeError(f"Missing {key_name}. ...")
MissingKeyError == "RuntimeError: Missing key"

\* gemini_yesno_batch.call_gemini: RuntimeError("Gemini returned empty text ...")
EmptyTextError == "RuntimeError: empty text"

\* One pass through the body of "try": the call, the parse, the
\* normalization.  What it yields or the exception it raises.
TryBody(o) ==
  IF driver = "llm"
  THEN IF ~env_key THEN Raise(MissingKeyError)       \* require_env in call_*
       ELSE IF o.raised THEN Raise("ProviderError")
       ELSE LET p == parse_json_strict(o.text)
            IN  IF p.ok THEN normalize_answers_llm(p.val) ELSE Raise(p.err)
  ELSE IF o.raised THEN Raise("ProviderError")
       ELSE IF o.text.kind = "empty" THEN Raise(EmptyTextError)   \* call_gemini
       ELSE LET p == json_loads(o.text)
            IN  IF p.ok THEN normalize_answers_gemini(p.val) ELSE Raise(p.err)

\* except Exception as e: last_err = f"{type(e).__name__}: {e}"
OnException(e) == e

\* out_row of main().  Of its fields the model keeps custom_id, model,
\* answers, justification and error; provider (which goes with the model),
\* raw and the --also-store copy (a field of its own name, next to these)
\* are left out.  row is bookkeeping of the model: the input row the record
\* was written for.
OutRow(i) ==
  [custom_id |-> ArticleId(i),
   model |-> args.model,
   answers |-> IF parsed.some THEN parsed.answers ELSE AllZero,
   justification |-> IF parsed.some THEN parsed.justification ELSE <<>>,
   error |-> last_err,
   row |-> i]

Stopped == pc \in { "idle", "done", "aborted", "killed" }

\* The driver is started: argument parsing, (gemini) the key check, the
\* done-set.  An output file that exists is only ever given to a run with
\* --resume, and only if the runs that wrote it had --resume too.
StartRunWith(model, resume, dry_run) ==
  /\ Stopped
  /\ run < MaxRuns
  /\ (run = 0 \/ (resume /\ args.resume))
  /\ run' = run + 1
  /\ args' = [args EXCEPT !.resume = resume, !.dry_run = dry_run, !.model = model]
  /\ idx' = 1 /\ attempt' = 0 /\ parsed' = None /\ last_err' = Null /\ wrote' = 0
  /\ natt' = 0
  /\ called' = [i \in Rows |-> FALSE]
  /\ status' = [i \in Rows |-> "PENDING"]
  /\ IF driver = "gemini" /\ ~env_key
     THEN /\ pc' = "aborted" /\ fatal' = "missing_key"
          /\ UNCHANGED << skip_ids, only_ids, done_ids >>
     ELSE /\ pc' = "next" /\ fatal' = ""
          /\ skip_ids' = parse_id_list(args.skip)
          /\ only_ids' = parse_id_list(args.only)
          /\ done_ids' = IF resume THEN load_done_ids(out_file) ELSE {}
  /\ interrupted' = (pc = "killed")
  /\ UNCHANGED << fn_arg, fn_ret, driver, env_key, input, out_file >>

\* A start with the --model of the command line.
StartRun(resume, dry_run) == StartRunWith(args.model, resume, dry_run)

\* "for row in iter_jsonl(...)" is exhausted: the summary is printed.
EndOfInput ==
  /\ pc = "next" /\ idx > Len(input)
  /\ pc' = "done"
  /\ UNCHANGED << fn_arg, fn_ret, driver, env_key, args, input, out_file, run, skip_ids, only_ids,
                  done_ids, idx, attempt, parsed, last_err, wrote, natt, called,
                  status, fatal, interrupted >>

\* The row has no id: ValueError leaves main().
AbortMissingId ==
  /\ pc = "next" /\ idx <= Len(input)
  /\ MissingId(idx)
  /\ pc' = "aborted" /\ fatal' = "missing_id"
  /\ UNCHANGED << fn_arg, fn_ret, driver, env_key, args, input, out_file, run, skip_ids, only_ids,
                  done_ids, idx, attempt, parsed, last_err, wrote, natt, called,
                  status, interrupted >>

\* One of the three "continue" tests holds.
SkipRow ==
  /\ pc = "next" /\ idx <= Len(input)
  /\ ~MissingId(idx) /\ Filtered(idx)
  /\ status' = [status EXCEPT ![idx] = "SKIPPED"]
  /\ idx' = idx + 1
  /\ UNCHANGED << fn_arg, fn_ret, driver, env_key, args, input, out_file, run, pc, skip_ids, only_ids,
                  done_ids, attempt, parsed, last_err, wrote, natt, called, fatal, interrupted >>

\* --dry-run: the preview is printed, then "continue".
DryRunRow ==
  /\ pc = "next" /\ idx <= Len(input)
  /\ ~MissingId(idx) /\ ~Filtered(idx) /\ args.dry_run
  /\ status' = [status EXCEPT ![idx] = "PREVIEWED"]
  /\ idx' = idx + 1
  /\ UNCHANGED << fn_arg, fn_ret, driver, env_key, args, input, out_file, run, pc, skip_ids, only_ids,
                  done_ids, attempt, parsed, last_err, wrote, natt, called, fatal, interrupted >>

\* BeginRow without the --dry-run test.
BeginRow_IgnoresDryRun ==
  /\ pc = "next" /\ idx <= Len(input)
  /\ ~MissingId(idx) /\ ~Filtered(idx)
  /\ parsed' = None /\ last_err' = Null
  /\ attempt' = 1 /\ natt' = 0
  /\ status' = [status EXCEPT ![idx] = "IN_FLIGHT"]
  /\ pc' = IF InRange(1) THEN "call" ELSE "write"
  /\ UNCHANGED << fn_arg, fn_ret, driver, env_key, args, input, out_file, run, skip_ids, only_ids,
                  done_ids, idx, wrote, called, fatal, interrupted >>

\* The prompt is built and the retry loop entered (or passed at once when
\* its range is empty).
BeginRow ==
  /\ pc = "next" /\ idx <= Len(input)
  /\ ~MissingId(idx) /\ ~Filtered(idx) /\ ~args.dry_run
  /\ parsed' = None /\ last_err' = Null
  /\ attempt' = 1 /\ natt' = 0
  /\ status' = [status EXCEPT ![idx] = "IN_FLIGHT"]
  /\ pc' = IF InRange(1) THEN "call" ELSE "write"
  /\ UNCHANGED << fn_arg, fn_ret, driver, env_key, args, input, out_file, run, skip_ids, only_ids,
                  done_ids, idx, wrote, called, fatal, interrupted >>

\* An attempt whose call, parse and normalization all succeed: break.
AttemptOk(o) ==
  /\ pc = "call"
  /\ TryBody(o).ok
  /\ natt' = natt + 1
  /\ called' = [called EXCEPT ![idx] = TRUE]
  /\ parsed' = Some(TryBody(o).val)
  /\ last_err' = Null
  /\ pc' = "write"
  /\ UNCHANGED << fn_arg, fn_ret, driver, env_key, args, input, out_file, run, skip_ids, only_ids,
                  done_ids, idx, attempt, wrote, status, fatal, interrupted >>

\* AttemptFails without the "except Exception": the exception leaves main().
AttemptFails_Escapes(o) ==
  /\ pc = "call"
  /\ ~TryBody(o).ok
  /\ natt' = natt + 1
  /\ called' = [called EXCEPT ![idx] = TRUE]
  /\ last_err' = OnException(TryBody(o).err)
  /\ pc' = "aborted" /\ fatal' = "exception"
  /\ UNCHANGED << fn_arg, fn_ret, driver, env_key, args, input, out_file, run, skip_ids, only_ids,
                  done_ids, idx, attempt, parsed, wrote, status, interrupted >>

\* An attempt that raises: the message is kept and the backoff sleep starts.
AttemptFails(o) ==
  /\ pc = "call"
  /\ ~TryBody(o).ok
  /\ natt' = natt + 1
  /\ called' = [called EXCEPT ![idx] = TRUE]
  /\ last_err' = OnException(TryBody(o).err)
  /\ pc' = "backoff"
  /\ UNCHANGED << fn_arg, fn_ret, driver, env_key, args, input, out_file, run, skip_ids, only_ids,
                  done_ids, idx, attempt, parsed, wrote, status, fatal, interrupted >>

\* time.sleep(min(5.0, attempt)) returns; the for loop takes its next value
\* or ends.
Backoff ==
  /\ pc = "backoff"
  /\ attempt' = attempt + 1
  /\ pc' = IF InRange(attempt + 1) THEN "call" ELSE "write"
  /\ UNCHANGED << fn_arg, fn_ret, driver, env_key, args, input, out_file, run, skip_ids, only_ids,
                  done_ids, idx, parsed, last_err, wrote, natt, called, status,
                  fatal, interrupted >>

\* WriteRow with the record appended only when an attempt succeeded.
WriteRow_DropsFailures ==
  /\ pc = "write"
  /\ out_file' = IF parsed.some THEN append_jsonl(out_file, OutRow(idx)) ELSE out_file
  /\ wrote' = IF parsed.some THEN wrote + 1 ELSE wrote
  /\ status' = [status EXCEPT ![idx] = IF parsed.some THEN "SUCCEEDED" ELSE "FAILED"]
  /\ pc' = "pace"
  /\ UNCHANGED << fn_arg, fn_ret, driver, env_key, args, input, run, skip_ids, only_ids, done_ids,
                  idx, attempt, parsed, last_err, natt, called, fatal, interrupted >>

\* WriteRow with the id written also added to the done-set.
WriteRow_UpdatesDoneIds ==
  /\ pc = "write"
  /\ out_file' = append_jsonl(out_file, OutRow(idx))
  /\ wrote' = wrote + 1
  /\ done_ids' = done_ids \cup { ArticleId(idx) }
  /\ status' = [status EXCEPT ![idx] = IF parsed.some THEN "SUCCEEDED" ELSE "FAILED"]
  /\ pc' = "pace"
  /\ UNCHANGED << fn_arg, fn_ret, driver, env_key, args, input, run, skip_ids, only_ids,
                  idx, attempt, parsed, last_err, natt, called, fatal, interrupted >>

\* WriteRow with the pacing sleep left out after a failed record.
WriteRow_NoPaceOnFailure ==
  /\ pc = "write"
  /\ out_file' = append_jsonl(out_file, OutRow(idx))
  /\ wrote' = wrote + 1
  /\ status' = [status EXCEPT ![idx] = IF parsed.some THEN "SUCCEEDED" ELSE "FAILED"]
  /\ pc' = IF parsed.some THEN "pace" ELSE "next"
  /\ idx' = IF parsed.some THEN idx ELSE idx + 1
  /\ UNCHANGED << fn_arg, fn_ret, driver, env_key, args, input, run, skip_ids, only_ids, done_ids,
                  attempt, parsed, last_err, natt, called, fatal, interrupted >>

\* out_row is built and appended; wrote += 1; the pacing sleep starts.
WriteRow ==
  /\ pc = "write"
  /\ out_file' = append_jsonl(out_file, OutRow(idx))
  /\ wrote' = wrote + 1
  /\ status' = [status EXCEPT ![idx] = IF parsed.some THEN "SUCCEEDED" ELSE "FAILED"]
  /\ pc' = "pace"
  /\ UNCHANGED << fn_arg, fn_ret, driver, env_key, args, input, run, skip_ids, only_ids, done_ids,
                  idx, attempt, parsed, last_err, natt, called, fatal, interrupted >>

\* time.sleep(max(0.0, args.sleep)) returns; next row.
Pace ==
  /\ pc = "pace"
  /\ idx' = idx + 1
  /\ pc' = "next"
  /\ UNCHANGED << fn_arg, fn_ret, driver, env_key, args, input, out_file, run, skip_ids, only_ids,
                  done_ids, attempt, parsed, last_err, wrote, natt, called,
                  status, fatal, interrupted >>

\* The process is terminated from outside, wherever it is: its memory is
\* gone, the output file stays.
Kill ==
  /\ ~Stopped
  /\ pc' = "killed"
  /\ skip_ids' = {} /\ only_ids' = {} /\ done_ids' = {}
  /\ idx' = 1 /\ attempt' = 0 /\ parsed' = None /\ last_err' = Null /\ wrote' = 0
  /\ natt' = 0
  /\ called' = [i \in Rows |-> FALSE]
  /\ status' = [i \in Rows |-> "PENDING"]
  /\ UNCHANGED << fn_arg, fn_ret, driver, env_key, args, input, out_file, run, fatal, interrupted >>

Step ==
  \/ EndOfInput
  \/ AbortMissingId
  \/ SkipRow
  \/ DryRunRow
  \/ BeginRow
  \/ \E o \in Outcomes : AttemptOk(o)
  \/ \E o \in Outcomes : AttemptFails(o)
  \/ Backoff
  \/ WriteRow
  \/ Pace

Next ==
  \/ \E resume \in BOOLEAN, dry_run \in BOOLEAN : StartRun(resume, dry_run)
  \/ Step
  \/ Kill

Spec == Init /\ [][Next]_vars

\* Runs that nobody terminates from outside.  A started process keeps
\* running: main() is sequential, every provider call returns or raises and
\* every sleep ends, so a step that is possible is eventually taken.
NextUndisturbed ==
  \/ \E resume \in BOOLEAN, dry_run \in BOOLEAN : run = 0 /\ StartRun(resume, dry_run)
  \/ Step

FairSpec == Init /\ [][NextUndisturbed]_vars /\ WF_vars(Step)

\* ------------------------------------- normalize_answers called on its own
\* Values a response may give for a question code.
AnswerValues ==
  { JBool(TRUE), JBool(FALSE),
    JInt(0), JInt(1), JInt(2), JInt(-1),
    JFloat(10), JFloat(15), JFloat(5), JFloat(-15), JNaN,
    JStr(<< "1" >>), JStr(<< " ", "1", " " >>), JStr(<< "0" >>),
    JStr(<< "1", "0" >>), JStr(<<>>),
    JNull, JList, JDict }

\* The code is not a key of the mapping.
Missing == [t |-> "missing", n |-> 0, s |-> <<>>]

\* The codes sample responses speak about; every other code is missing.
SampleCodes == { "A1", "B10" }

\* answers mappings: each sample code missing or mapped to a value
AnswerDicts ==
  { [q \in { k \in SampleCodes : c[k] # Missing } |-> c[q]] :
      c \in [SampleCodes -> AnswerValues \cup { Missing }] }

\* Values of the justification field.
JustValues ==
  { JStr(<< " ", "o", "k", " " >>), JStr(<< "o", "k" >>), JStr(<<>>), JNull, JInt(1) }

\* Parsed responses: well-shaped ones, ones without justification, ones
\* without answers, ones whose answers is not a mapping, a non-mapping.
NormObjs ==
  { MkObj("dict", TRUE, TRUE, a, TRUE, j) : a \in AnswerDicts, j \in JustValues }
    \cup { MkObj("dict", TRUE, TRUE, a, FALSE, JNull) : a \in AnswerDicts }
    \cup { MkObj("dict", FALSE, FALSE, << >>, TRUE, j) : j \in JustValues }
    \cup { MkObj("dict", TRUE, FALSE, << >>, TRUE, j) : j \in JustValues }
    \cup { MkObj("dict", FALSE, FALSE, << >>, FALSE, JNull),
           MkObj("dict", TRUE, FALSE, << >>, FALSE, JNull),
           ObjGood, ObjOdd, ObjList }

NotCalled == [called |-> FALSE, res |-> Raise("")]
Returned(r) == [called |-> TRUE, res |-> r]

NormInit ==
  /\ NoRun
  /\ fn_arg \in { [impl |-> d, obj |-> o] : d \in Drivers, o \in NormObjs }
  /\ fn_ret = NotCalled

\* normalize_answers(obj) of the script fn_arg.impl
CallNormalizeAnswers ==
  /\ ~fn_ret.called
  /\ fn_ret' = Returned(IF fn_arg.impl = "llm"
                        THEN normalize_answers_llm(fn_arg.obj)
                        ELSE normalize_answers_gemini(fn_arg.obj))
  /\ UNCHANGED << fn_arg, main_vars >>

NormNext == CallNormalizeAnswers

NormSpec == NormInit /\ [][NormNext]_vars

\* ------------------------------------- parse_json_strict called on its own
\* Response texts as characters.  "{" and "}" are the braces, "1" a digit,
\* " " whitespace, "k" stands for a key with its colon ("k":) and "x" for
\* any character of prose or of a markdown fence.
TextChars == { "{", "}", "k", "1", "x", " " }

\* The first position from i on that holds no blank (Len(s) + 1 if none).
RECURSIVE SkipWs(_, _)
SkipWs(s, i) ==
  IF i <= Len(s) /\ s[i] = " " THEN SkipWs(s, i + 1) ELSE i

\* The first position from i on that holds no digit.
RECURSIVE SkipDigits(_, _)
SkipDigits(s, i) ==
  IF i <= Len(s) /\ s[i] = "1" THEN SkipDigits(s, i + 1) ELSE i

NoValue == [ok |-> FALSE, val |-> <<>>, next |-> 0]

\* The JSON value that starts at position i of s, after blanks: a number, {}
\* or an object with the one key k.  val is the value as its text without
\* blanks, next the position after it.
RECURSIVE ScanValue(_, _)
ScanValue(s, i) ==
  LET j == SkipWs(s, i)
  IN  IF j > Len(s) THEN NoValue
      ELSE IF s[j] = "1"
        THEN [ok |-> TRUE, val |-> SubSeq(s, j, SkipDigits(s, j) - 1),
              next |-> SkipDigits(s, j)]
      ELSE IF s[j] = "{"
        THEN LET a == SkipWs(s, j + 1)
             IN  IF a > Len(s) THEN NoValue
                 ELSE IF s[a] = "}"
                   THEN [ok |-> TRUE, val |-> << "{", "}" >>, next |-> a + 1]
                 ELSE IF s[a] = "k"
                   THEN LET v == ScanValue(s, a + 1)
                            b == SkipWs(s, v.next)
                        IN  IF v.ok /\ b <= Len(s) /\ s[b] = "}"
                            THEN [ok |-> TRUE,
                                  val |-> << "{", "k" >> \o v.val \o << "}" >>,
                                  next |-> b + 1]
                            ELSE NoValue
                 ELSE NoValue
      ELSE NoValue

\* json.loads(s): one value, blanks around it, nothing else
json_loads_str(s) ==
  LET v == ScanValue(s, 1)
  IN  IF v.ok /\ SkipWs(s, v.next) > Len(s)
      THEN [ok |-> TRUE, err |-> "", val |-> v.val]
      ELSE [ok |-> FALSE, err |-> "JSONDecodeError", val |-> <<>>]

\* str.find(c) and str.rfind(c), counted from 1 (0: not found)
Find(s, c) ==
  LET at == { i \in 1..Len(s) : s[i] = c }
  IN  IF at = {} THEN 0 ELSE CHOOSE i \in at : \A j \in at : i <= j

RFind(s, c) ==
  LET at == { i \in 1..Len(s) : s[i] = c }
  IN  IF at = {} THEN 0 ELSE CHOOSE i \in at : \A j \in at : j <= i

\* parse_json_strict with text.find("}") for the end of the region.
parse_json_strict_str_FirstClose(text) ==
  LET t == Strip(text)
      start == Find(t, "{")
      end == Find(t, "}")
  IN  IF json_loads_str(t).ok THEN json_loads_str(t)
      ELSE IF start # 0 /\ end # 0 /\ end > start
           THEN json_loads_str(SubSeq(t, start, end))
           ELSE json_loads_str(t)

\* parse_json_strict on the characters of the text: strip, json.loads, and
\* on JSONDecodeError json.loads of text[start:end + 1], or the error again.
parse_json_strict_str(text) ==
  LET t == Strip(text)
      start == Find(t, "{")
      end == RFind(t, "}")
  IN  IF json_loads_str(t).ok THEN json_loads_str(t)
      ELSE IF start # 0 /\ end # 0 /\ end > start
           THEN json_loads_str(SubSeq(t, start, end))
           ELSE json_loads_str(t)

RECURSIVE TextsUpTo(_)
TextsUpTo(n) ==
  IF n = 0 THEN { <<>> }
  ELSE LET shorter == TextsUpTo(n - 1)
       IN  shorter \cup { Append(q, c) : q \in { t \in shorter : Len(t) = n - 1 },
                                          c \in TextChars }

NotParsed == [called |-> FALSE, res |-> json_loads_str(<<>>)]

ParseInit ==
  /\ NoRun
  /\ fn_arg \in TextsUpTo(MaxText)
  /\ fn_ret = NotParsed

CallParseJsonStrict ==
  /\ ~fn_ret.called
  /\ fn_ret' = [called |-> TRUE, res |-> parse_json_strict_str(fn_arg)]
  /\ UNCHANGED << fn_arg, main_vars >>

ParseNext == CallParseJsonStrict

ParseSpec == ParseInit /\ [][ParseNext]_vars

\* ---------------------------------- _chunk_text_by_chars called on its own
\* The while loop from position i (counted from 0, as in the code):
\* chunks.append(text[i:i + max_chars]); i += max_chars
RECURSIVE ChunksFrom_Overlapping(_, _, _)
ChunksFrom_Overlapping(text, i, max_chars) ==
  IF i < Len(text)
  THEN << SubSeq(text, i + 1, IF i + max_chars + 1 < Len(text)
                              THEN i + max_chars + 1 ELSE Len(text)) >>
         \o ChunksFrom_Overlapping(text, i + max_chars, max_chars)
  ELSE << >>

RECURSIVE ChunksFrom(_, _, _)
ChunksFrom(text, i, max_chars) ==
  IF i < Len(text)
  THEN << SubSeq(text, i + 1, IF i + max_chars < Len(text)
                              THEN i + max_chars ELSE Len(text)) >>
         \o ChunksFrom(text, i + max_chars, max_chars)
  ELSE << >>

\* _chunk_text_by_chars(text, max_chars), for max_chars >= 1 (the one call
\* of the function passes 12000)
chunk_text_by_chars(text, max_chars) == ChunksFrom(text, 0, max_chars)

RECURSIVE ArticlesUpTo(_)
ArticlesUpTo(n) ==
  IF n = 0 THEN { <<>> }
  ELSE LET shorter == ArticlesUpTo(n - 1)
       IN  shorter \cup { Append(q, c) : q \in { t \in shorter : Len(t) = n - 1 },
                                          c \in { "a", "b" } }

ChunkInit ==
  /\ NoRun
  /\ fn_arg \in { [text |-> t, max_chars |-> n] :
                    t \in ArticlesUpTo(MaxChunkText), n \in 1..MaxChunkSize }
  /\ fn_ret = [called |-> FALSE, chunks |-> << >>]

CallChunkTextByChars ==
  /\ ~fn_ret.called
  /\ fn_ret' = [called |-> TRUE,
                chunks |-> chunk_text_by_chars(fn_arg.text, fn_arg.max_chars)]
  /\ UNCHANGED << fn_arg, main_vars >>

ChunkNext == CallChunkTextByChars

ChunkSpec == ChunkInit /\ [][ChunkNext]_vars

\* ------------------------- one article through llm_yesno_batch.call_gemini
\* main()'s retry loop around the chunked adapter, for one input row.
\* fn_arg: the article text, its chunks and --max-retries.  fn_ret: where
\* the code is (pc), main's attempt, parsed and last_err, call_gemini's ci,
\* chunk_answers and chunk_justs, what call_gemini returned last (final),
\* the record written (record), and, as bookkeeping, the outcome of each
\* chunk call of the current attempt (log) and the numbers of attempts
\* begun (natt), of attempts ended by a chunk (nfailed) and of calls to the
\* service (ncalls).

\* Responses to a chunk prompt that parse and normalize.
ChunkObjs ==
  { MkObj("dict", TRUE, TRUE, [q \in SampleCodes |-> JInt(v[q])], TRUE, JStr(j)) :
      v \in [SampleCodes -> { 0, 1 }], j \in { <<>>, << "e" >> } }

\* What one chunk call may do: the service raises, or returns a text.
ChunkOutcomes ==
  { [raised |-> TRUE, text |-> MkText("empty", ObjList)] }
    \cup { [raised |-> FALSE, text |-> MkText("json", o)] : o \in ChunkObjs }
    \cup { [raised |-> FALSE, text |-> t] :
             t \in { MkText("empty", ObjList), MkText("garbage", ObjList),
                     MkText("json", ObjList) } }

\* call_gemini: RuntimeError("Gemini returned empty text for a chunk ...")
ChunkEmptyTextError == "RuntimeError: empty text for a chunk"

\* The body of the chunk loop after the service call: raw text or the
\* RuntimeError, parse_json_strict, normalize_answers.
ChunkTry(o) ==
  IF o.raised THEN Raise("ProviderError")
  ELSE IF o.text.kind = "empty" THEN Raise(ChunkEmptyTextError)
  ELSE LET p == parse_json_strict(o.text)
       IN  IF p.ok THEN normalize_answers_llm(p.val) ELSE Raise(p.err)

\* The last chunk's answers taken as the final ones.
AggregateAnswers_LastChunk(chunk_answers) ==
  IF chunk_answers = << >> THEN AllZero ELSE chunk_answers[Len(chunk_answers)]

\* final[qid] = 1 if any(a.get(qid, 0) == 1 for a in chunk_answers)
AggregateAnswers(chunk_answers) ==
  [q \in QidSet |->
     IF \E c \in 1..Len(chunk_answers) : chunk_answers[c][q] = 1 THEN 1 ELSE 0]

\* "\n\n".join(parts)
RECURSIVE JoinParts(_)
JoinParts(parts) ==
  IF parts = << >> THEN << >>
  ELSE IF Len(parts) = 1 THEN parts[1]
  ELSE parts[1] \o << "\n", "\n" >> \o JoinParts(Tail(parts))

\* just_parts = [j for j in chunk_justs if j]; at most its first two; joined
AggregateJustification(chunk_justs) ==
  LET just_parts == SelectSeq(chunk_justs, LAMBDA j : j # << >>)
      kept == IF Len(just_parts) > 2 THEN SubSeq(just_parts, 1, 2) ELSE just_parts
  IN  Strip(JoinParts(kept))

\* json.dumps({"answers": final, "justification": final_just})
DumpsFinal(final, final_just) ==
  MkText("json", MkObj("dict", TRUE, TRUE, [q \in QidSet |-> JInt(final[q])],
                       TRUE, JStr(final_just)))

\* The article texts: the chunk size 12000 of the call is scaled to one
\* character, so a text of n characters has n chunks; "" has none.
\* A text of line breaks only is one more article.
GeminiArticles ==
  { t \in ArticlesUpTo(MaxChunks) : \A i \in 1..Len(t) : t[i] = "a" } \cup { << "\n" >> }

\* article_text.strip("\n")
RECURSIVE strip_newlines(_)
strip_newlines(s) ==
  IF s = << >> THEN s
  ELSE IF Head(s) = "\n" THEN strip_newlines(Tail(s))
  ELSE IF s[Len(s)] = "\n" THEN strip_newlines(SubSeq(s, 1, Len(s) - 1))
  ELSE s

AttemptStart(r) ==
  [r EXCEPT !.ci = 1, !.chunk_answers = << >>, !.chunk_justs = << >>,
            !.log = << >>, !.natt = r.natt + 1]

GeminiInit ==
  /\ NoRun
  /\ fn_arg \in { [text |-> t, chunks |-> chunk_text_by_chars(strip_newlines(t), 1),
                     max_retries |-> n] :
                    t \in GeminiArticles, n \in 0..MaxRetriesArg }
  /\ LET r0 == [pc |-> "write", attempt |-> 1, parsed |-> None, last_err |-> Null,
                ci |-> 1, chunk_answers |-> << >>, chunk_justs |-> << >>,
                final |-> AllZero, record |-> << >>,
                log |-> << >>, natt |-> 0, nfailed |-> 0, ncalls |-> 0]
     IN  fn_ret = IF 1 <= fn_arg.max_retries
                  THEN [AttemptStart(r0) EXCEPT !.pc = "chunks"]
                  ELSE r0

\* The chunk's call returns text that parses and normalizes.
ChunkAnswered(o) ==
  /\ fn_ret.pc = "chunks" /\ fn_ret.ci <= Len(fn_arg.chunks)
  /\ ChunkTry(o).ok
  /\ fn_ret' = [fn_ret EXCEPT
                  !.chunk_answers = Append(@, ChunkTry(o).val.answers),
                  !.chunk_justs = Append(@, ChunkTry(o).val.justification),
                  !.ci = @ + 1,
                  !.log = Append(@, "ok"),
                  !.ncalls = @ + 1]
  /\ UNCHANGED << fn_arg, main_vars >>

\* ChunkFailed with the chunk counted as one that answered 0 everywhere.
ChunkFailed_CountedAsZero(o) ==
  /\ fn_ret.pc = "chunks" /\ fn_ret.ci <= Len(fn_arg.chunks)
  /\ ~ChunkTry(o).ok
  /\ fn_ret' = [fn_ret EXCEPT
                  !.chunk_answers = Append(@, AllZero),
                  !.chunk_justs = Append(@, << >>),
                  !.ci = @ + 1,
                  !.log = Append(@, "failed"),
                  !.ncalls = @ + 1]
  /\ UNCHANGED << fn_arg, main_vars >>

\* The chunk's call raises, returns no text, or text that does not parse or
\* normalize: the exception leaves call_gemini and reaches main's except.
ChunkFailed(o) ==
  /\ fn_ret.pc = "chunks" /\ fn_ret.ci <= Len(fn_arg.chunks)
  /\ ~ChunkTry(o).ok
  /\ fn_ret' = [fn_ret EXCEPT
                  !.last_err = OnException(ChunkTry(o).err),
                  !.pc = "except",
                  !.nfailed = @ + 1,
                  !.log = Append(@, "failed"),
                  !.ncalls = @ + 1]
  /\ UNCHANGED << fn_arg, main_vars >>

\* The chunk loop is over: call_gemini aggregates and returns its JSON text;
\* main parses and normalizes it and leaves the retry loop.
Aggregate ==
  /\ fn_ret.pc = "chunks" /\ fn_ret.ci > Len(fn_arg.chunks)
  /\ LET final == AggregateAnswers(fn_ret.chunk_answers)
         final_just == AggregateJustification(fn_ret.chunk_justs)
         p == parse_json_strict(DumpsFinal(final, final_just))
         n == normalize_answers_llm(p.val)
     IN  fn_ret' = IF p.ok /\ n.ok
                   THEN [fn_ret EXCEPT !.final = final, !.parsed = Some(n.val),
                                       !.last_err = Null, !.pc = "write"]
                   ELSE [fn_ret EXCEPT !.final = final,
                                       !.last_err = OnException(IF p.ok THEN n.err ELSE p.err),
                                       !.pc = "except"]
  /\ UNCHANGED << fn_arg, main_vars >>

\* main's except: the backoff sleep, then the next attempt or the end of the
\* retry loop.
RetryChunks ==
  /\ fn_ret.pc = "except"
  /\ fn_ret' = IF fn_ret.attempt + 1 <= fn_arg.max_retries
               THEN [AttemptStart(fn_ret) EXCEPT !.attempt = fn_ret.attempt + 1,
                                                 !.pc = "chunks"]
               ELSE [fn_ret EXCEPT !.attempt = fn_ret.attempt + 1, !.pc = "write"]
  /\ UNCHANGED << fn_arg, main_vars >>

\* out_row is built and appended.
WriteArticle ==
  /\ fn_ret.pc = "write"
  /\ fn_ret' = [fn_ret EXCEPT
                  !.record = << [answers |-> IF fn_ret.parsed.some
                                             THEN fn_ret.parsed.answers ELSE AllZero,
                                 justification |-> IF fn_ret.parsed.some
                                                   THEN fn_ret.parsed.justification
                                                   ELSE << >>,
                                 error |-> fn_ret.last_err] >>,
                  !.pc = "done"]
  /\ UNCHANGED << fn_arg, main_vars >>

GeminiNext ==
  \/ \E o \in ChunkOutcomes : ChunkAnswered(o)
  \/ \E o \in ChunkOutcomes : ChunkFailed(o)
  \/ Aggregate
  \/ RetryChunks
  \/ WriteArticle

GeminiSpec == GeminiInit /\ [][GeminiNext]_vars

\* ------------------------------------- main()'s retry loop on given responses
\* One run of either driver over one input row, where the response to each
\* attempt is fixed beforehand: fn_arg[k] is what the provider does at the
\* k-th call.  The run is main()'s, with the same actions.
Responses == [1..MaxRetriesArg -> Outcomes]

RetryInit ==
  /\ driver \in Drivers
  /\ env_key = TRUE
  /\ input = << << "x" >> >>
  /\ \E n \in 0..MaxRetriesArg :
       args = [max_retries |-> n, skip |-> <<>>, only |-> <<>>,
               resume |-> FALSE, dry_run |-> FALSE, model |-> "m1"]
  /\ out_file = <<>>
  /\ run = 0
  /\ pc = "idle"
  /\ skip_ids = {} /\ only_ids = {} /\ done_ids = {}
  /\ idx = 1
  /\ attempt = 0
  /\ parsed = None
  /\ last_err = Null
  /\ wrote = 0
  /\ natt = 0
  /\ called = [i \in Rows |-> FALSE]
  /\ status = [i \in Rows |-> "PENDING"]
  /\ fatal = ""
  /\ interrupted = FALSE
  /\ fn_arg \in Responses
  /\ fn_ret = "none"

RetryNext ==
  \/ (run = 0 /\ StartRun(FALSE, FALSE))
  \/ BeginRow
  \/ (attempt \in DOMAIN fn_arg /\ AttemptOk(fn_arg[attempt]))
  \/ (attempt \in DOMAIN fn_arg /\ AttemptFails(fn_arg[attempt]))
  \/ Backoff
  \/ WriteRow
  \/ Pace
  \/ EndOfInput

RetrySpec == RetryInit /\ [][RetryNext]_vars

\* ------------------------------------- runs that share one output file
\* Completed runs of a driver, each with its own --model, on one input and
\* one output file.  The input's ids are non-blank and differ from one
\* another after trimming, and every run has at least one attempt per row.
Models == { "m1", "m2" }

SharedInputs ==
  { f \in Inputs :
      /\ Len(f) >= 1
      /\ \A i \in 1..Len(f) : Strip(f[i]) # <<>>
      /\ \A i, j \in 1..Len(f) : i # j => Strip(f[i]) # Strip(f[j]) }

SharedInit ==
  /\ driver \in Drivers
  /\ env_key = TRUE
  /\ input \in SharedInputs
  /\ \E c \in CommandLines(driver) :
       /\ c.max_retries >= 1
       /\ args = [max_retries |-> c.max_retries, skip |-> c.skip, only |-> c.only,
                  resume |-> FALSE, dry_run |-> FALSE, model |-> "m1"]
  /\ out_file = <<>>
  /\ run = 0
  /\ pc = "idle"
  /\ skip_ids = {} /\ only_ids = {} /\ done_ids = {}
  /\ idx = 1
  /\ attempt = 0
  /\ parsed = None
  /\ last_err = Null
  /\ wrote = 0
  /\ natt = 0
  /\ called = [i \in Rows |-> FALSE]
  /\ status = [i \in Rows |-> "PENDING"]
  /\ fatal = ""
  /\ interrupted = FALSE
  /\ fn_arg = "none" /\ fn_ret = "none"

\* The steps of main() that such runs can take (no row lacks its id, no run
\* is a dry run, none is killed).
SharedNext ==
  \/ \E m \in Models, resume \in BOOLEAN : StartRunWith(m, resume, FALSE)
  \/ EndOfInput
  \/ SkipRow
  \/ BeginRow
  \/ \E o \in Outcomes : AttemptOk(o)
  \/ \E o \in Outcomes : AttemptFails(o)
  \/ Backoff
  \/ WriteRow
  \/ Pace

SharedSpec == SharedInit /\ [][SharedNext]_vars

\* ----------------------------------------- the backoff of main()'s retry loop
\* The retry loop for one record with the length of every backoff sleep.
\* fn_arg: --max-retries.  fn_ret: where the loop is (pc), attempt, last_err,
\* whether an attempt succeeded (ok) and the sleeps made so far, in seconds
\* (sleeps).

\* The cap of the backoff, in seconds: min(5.0, ...)
BackoffCap == 5

\* The constant backoff of one second.
backoff_seconds_Constant(a) == 1

\* min(5.0, attempt * 1.0)
backoff_seconds(a) == IF a < BackoffCap THEN a ELSE BackoffCap

\* The exceptions an attempt may end with.
AttemptErrors == { "ProviderError", EmptyTextError, "JSONDecodeError", "ValueError" }

BackoffInit ==
  /\ NoRun
  /\ fn_arg \in { [max_retries |-> n] : n \in 0..MaxBackoffRetries }
  /\ fn_ret = [pc |-> IF 1 <= fn_arg.max_retries THEN "call" ELSE "out",
               attempt |-> 1, last_err |-> Null, ok |-> FALSE, sleeps |-> << >>]

\* The try body raises nothing: break.
BackoffAttemptOk ==
  /\ fn_ret.pc = "call"
  /\ fn_ret' = [fn_ret EXCEPT !.ok = TRUE, !.last_err = Null, !.pc = "out"]
  /\ UNCHANGED << fn_arg, main_vars >>

\* The try body raises e: last_err is set and the sleep begins.
BackoffAttemptFails(e) ==
  /\ fn_ret.pc = "call"
  /\ fn_ret' = [fn_ret EXCEPT !.last_err = OnException(e), !.pc = "sleep"]
  /\ UNCHANGED << fn_arg, main_vars >>

\* time.sleep(min(5.0, attempt * 1.0)) returns; the loop takes its next
\* value or ends.
BackoffSleep ==
  /\ fn_ret.pc = "sleep"
  /\ fn_ret' = [fn_ret EXCEPT
                  !.sleeps = Append(@, backoff_seconds(fn_ret.attempt)),
                  !.attempt = @ + 1,
                  !.pc = IF fn_ret.attempt + 1 <= fn_arg.max_retries THEN "call" ELSE "out"]
  /\ UNCHANGED << fn_arg, main_vars >>

BackoffNext ==
  \/ BackoffAttemptOk
  \/ \E e \in AttemptErrors : BackoffAttemptFails(e)
  \/ BackoffSleep

BackoffSpec == BackoffInit /\ [][BackoffNext]_vars

\* ------------------------ build_user_prompt and call_gemini's recovery of it
\* A prompt is a sequence of pieces: a piece is a line break, a triple
\* quote, the word QUESTIONS with its colon, the heading of the article, the
\* rendered question list, the closing instructions, or other text.

TripleQuote == "\"\"\""
ArticleHeading == "ARTICLE TEXT (analyze carefully):"
QuestionsWord == "QUESTIONS:"
\* "\n".join(f"{qid}: {qtext}" ...)
q_lines == << "A1: ... B10: ..." >>
\* "Return STRICT JSON in exactly this shape ..." to the end of the prompt
ReturnInstructions == << "Return STRICT JSON ...", "\n" >>

build_user_prompt(article_text) ==
  << ArticleHeading, "\n", TripleQuote, "\n" >> \o article_text
    \o << "\n", TripleQuote, "\n", "\n", QuestionsWord, "\n" >>
    \o q_lines \o << "\n", "\n" >> \o ReturnInstructions

\* s.find(pat): the first place where pat starts in s, 0 if there is none
FindSeq(s, pat) ==
  LET hits == { i \in 1..(Len(s) - Len(pat) + 1) : SubSeq(s, i, i + Len(pat) - 1) = pat }
  IN  IF hits = {} THEN 0 ELSE CHOOSE i \in hits : \A j \in hits : i <= j

\* s.split(pat, 1)[0]
BeforeFirst(s, pat) ==
  IF FindSeq(s, pat) = 0 THEN s ELSE SubSeq(s, 1, FindSeq(s, pat) - 1)

\* s.split(pat, 1)[1], for s that has pat in it
AfterFirst(s, pat) == SubSeq(s, FindSeq(s, pat) + Len(pat), Len(s))

marker_start == << ArticleHeading, "\n", TripleQuote >>
marker_end == << TripleQuote, "\n", "\n", QuestionsWord >>

\* call_gemini up to the chunk loop: the article text and the question block
\* taken back out of user_prompt, or the RuntimeError.
recover_from_prompt(user_prompt) ==
  IF FindSeq(user_prompt, marker_start) = 0 \/ FindSeq(user_prompt, marker_end) = 0
  THEN Raise("RuntimeError")
  ELSE Ok([article_text |->
             strip_newlines(BeforeFirst(AfterFirst(user_prompt, marker_start), marker_end)),
           q_lines |-> AfterFirst(user_prompt, << QuestionsWord, "\n" >>)])

\* Article texts: up to MaxPromptText pieces.
PromptPieces == { "a", "\n", TripleQuote, QuestionsWord }
PromptTexts == SeqsUpTo(PromptPieces, MaxPromptText)

PromptInit ==
  /\ NoRun
  /\ fn_arg \in { [text |-> t] : t \in PromptTexts }
  /\ fn_ret = NotCalled

\* main builds the prompt; call_gemini takes it apart.
CallGeminiRecovers ==
  /\ ~fn_ret.called
  /\ fn_ret' = Returned(recover_from_prompt(build_user_prompt(fn_arg.text)))
  /\ UNCHANGED << fn_arg, main_vars >>

PromptNext == CallGeminiRecovers

PromptSpec == PromptInit /\ [][PromptNext]_vars

\* ================================================================ claims
\* Vocabulary of the claims, stated on the files and the command line and
\* not through the driver's own helpers.

\* The positions of the output file written by the current run: its last
\* `wrote` records.
ThisRun == { k \in 1..Len(out_file) : k > Len(out_file) - wrote }

\* The records the current run wrote for input row i.
WrittenFor(i) == { k \in ThisRun : out_file[k].row = i }

\* The ids the output file held when the current run started.
IdsAtStart == { out_file[k].custom_id : k \in (1..Len(out_file)) \ ThisRun }

\* The id of row i is missing or blank.
BlankId(i) == \A k \in 1..Len(input[i]) : input[i][k] = " "

\* s from its first to its last character that is not a blank.
Trimmed(s) ==
  LET solid == { k \in 1..Len(s) : s[k] # " " }
  IN  IF solid = {} THEN <<>>
      ELSE SubSeq(s, CHOOSE a \in solid : \A k \in solid : a <= k,
                     CHOOSE b \in solid : \A k \in solid : k <= b)

\* Trimmed, tabulated for the raw ids.
TrimTable == [s \in RawIds |-> Trimmed(s)]
TrimOf(s) == TrimTable[s]

\* The id of row i without its leading and trailing blanks is t.
TrimsTo(i, t) == t = TrimOf(input[i])

\* The comma-separated list arg names the id t.
NamedIn(arg, t) ==
  /\ t # <<>>
  /\ \E a \in 1..Len(arg), b \in 1..Len(arg) :
       /\ a <= b
       /\ (a = 1 \/ arg[a - 1] = ",")
       /\ (b = Len(arg) \/ arg[b + 1] = ",")
       /\ \A k \in a..b : arg[k] # ","
       /\ \E c \in a..b, d \in a..b :
            /\ t = SubSeq(arg, c, d)
            /\ t[1] # " " /\ t[Len(t)] # " "
            /\ \A k \in (a..(c - 1)) \cup ((d + 1)..b) : arg[k] = " "

\* NamedIn, tabulated for the argument strings and the trimmed raw ids.
NamesTable ==
  [arg \in SkipArgs \cup OnlyArgs |->
     { t \in { TrimTable[s] : s \in RawIds } : NamedIn(arg, t) }]
Names(arg, t) == t \in NamesTable[arg]

NamesNothing(arg) == \A k \in 1..Len(arg) : arg[k] \in { " ", "," }

\* Row i passes the only/skip filters and the resume test of the current run.
Passes(i) ==
  LET t == TrimOf(input[i])
  IN  /\ (NamesNothing(args.only) \/ Names(args.only, t))
      /\ ~Names(args.skip, t)
      /\ ~(args.resume /\ t \in IdsAtStart)

\* The loop of the current run has gone past row i.
Passed(i) == pc \in { "next", "call", "backoff", "write", "pace", "done", "aborted" } /\ i < idx

JustWrote == pc = "pace"
LastRecord == out_file[Len(out_file)]

IsAllZero(a) == DOMAIN a = QidSet /\ \A q \in QidSet : a[q] = 0

\* C2: if every attempt for a record fails then, for every --max-retries
\* value the driver accepts, exactly max_retries attempts were made and the
\* one record written for it has a non-null error (the message of the last
\* failed attempt), all 20 answers 0 and an empty justification.
C2_RetryExhaustion ==
  (JustWrote /\ ~parsed.some) =>
    /\ natt = args.max_retries
    /\ Cardinality(WrittenFor(idx)) = 1
    /\ LastRecord.error # Null
    /\ LastRecord.error = last_err
    /\ IsAllZero(LastRecord.answers)
    /\ LastRecord.justification = <<>>

\* C2 for the values of --max-retries that give the retry loop a body to run.
C2_RetryExhaustionWithAttempts ==
  args.max_retries >= 1 => C2_RetryExhaustion

\* C3: a written record has error = null if and only if one of its attempts
\* returned a response that passed parsing and normalization, and then its
\* answers and justification are that attempt's normalized values.
C3_ErrorNullIffAttemptSucceeded ==
  JustWrote =>
    /\ (LastRecord.error = Null) <=> parsed.some
    /\ parsed.some =>
         /\ LastRecord.answers = parsed.answers
         /\ LastRecord.justification = parsed.justification

\* C3 for the values of --max-retries that give the retry loop a body to run.
C3_WithAttempts ==
  args.max_retries >= 1 => C3_ErrorNullIffAttemptSucceeded

\* Row i was processed: the prompt was built and the retry loop entered,
\* the provider adapter called, a result written.
Processed(i) ==
  /\ status[i] \in { "IN_FLIGHT", "SUCCEEDED", "FAILED" }
  /\ called[i]
  /\ WrittenFor(i) # {}

\* --skip-ids names x and --only-ids names x and y
SkipXOnlyXY ==
  /\ \A t \in { << "x" >>, << "y" >> } : Names(args.skip, t) <=> t = << "x" >>
  /\ \A t \in { << "x" >>, << "y" >> } : Names(args.only, t)

\* C4 as stated: a record (the loop has gone past) is processed if and only
\* if it passes the only/skip filters and the resume test, and a skipped
\* record causes no provider call and no output record; with skip x and
\* only x, y nothing but y is processed.
C4_ProcessedIffPasses ==
  run >= 1 =>
    \A i \in Rows :
      Passed(i) =>
        /\ Processed(i) <=> Passes(i)
        /\ ~Passes(i) => (~called[i] /\ WrittenFor(i) = {})
        /\ (SkipXOnlyXY /\ Processed(i)) => TrimsTo(i, << "y" >>)

\* C4 amended: in a run without --dry-run, a record the loop has gone past
\* has a result written if and only if it passes the only/skip filters and
\* the resume test; the provider is called for no other record, and for
\* every such record when max_retries >= 1; a skipped record causes no
\* provider call and no output record; with skip x and only x, y nothing
\* but y is processed.
C4_ProcessedIffPassesNoDryRun ==
  (run >= 1 /\ ~args.dry_run) =>
    \A i \in Rows :
      Passed(i) =>
        LET passes == Passes(i)
            written == WrittenFor(i) # {}
        IN  /\ written <=> passes
            /\ (status[i] \in { "SUCCEEDED", "FAILED" }) <=> passes
            /\ called[i] => passes
            /\ (passes /\ args.max_retries >= 1) => Processed(i)
            /\ ~passes => (status[i] = "SKIPPED" /\ ~called[i] /\ ~written)
            /\ (SkipXOnlyXY /\ written) => TrimsTo(i, << "y" >>)

\* A finished run with skip x and only x, y over the rows x, y: x was
\* skipped and y processed.
C4_Witness ==
  /\ pc = "done" /\ ~args.dry_run /\ SkipXOnlyXY
  /\ input = << << "x" >>, << "y" >> >>
  /\ status[1] = "SKIPPED" /\ ~called[1]
  /\ status[2] = "SUCCEEDED" /\ called[2]
  /\ Len(out_file) = 1 /\ out_file[1].custom_id = << "y" >>

\* The output file holds no two records with the same custom_id.
NoDuplicateIds ==
  \A j, k \in 1..Len(out_file) :
    j # k => out_file[j].custom_id # out_file[k].custom_id

\* The ids of the input rows differ from one another after trimming.
DistinctTrimmedIds ==
  \A i, j \in Rows : i # j => TrimOf(input[i]) # TrimOf(input[j])

\* The current run neither called the provider nor wrote a record for a row
\* whose id the output file already held when the run started.
NothingForDoneIds ==
  \A i \in Rows :
    TrimOf(input[i]) \in IdsAtStart => (~called[i] /\ WrittenFor(i) = {})

\* C5 as stated: after the driver ran twice on the same input and output
\* with --resume, no two output records have the same custom_id, and the
\* second run made no provider call and appended nothing for an id the
\* first run wrote.
C5_ResumeLeavesNoDuplicates ==
  (run >= 2 /\ ~interrupted /\ args.resume /\ pc = "done") =>
    (NoDuplicateIds /\ NothingForDoneIds)

\* C5 for an input whose ids differ from one another after trimming: it then
\* holds at every point of every run with --resume.
C5_ResumeLeavesNoDuplicatesDistinctIds ==
  (run >= 1 /\ args.resume /\ DistinctTrimmedIds) =>
    (NoDuplicateIds /\ NothingForDoneIds)

\* The ids of the input rows that the only/skip filters let through.
UnfilteredIds ==
  { TrimOf(input[i]) :
      i \in { j \in Rows :
                /\ NamesNothing(args.only) \/ Names(args.only, TrimOf(input[j]))
                /\ ~Names(args.skip, TrimOf(input[j])) } }

RecordsOf(t) == { k \in 1..Len(out_file) : out_file[k].custom_id = t }

\* The rerun with --resume of a killed run has completed.
RerunCompleted ==
  run >= 2 /\ interrupted /\ args.resume /\ ~args.dry_run /\ pc = "done"

\* C6 as stated: once the rerun with --resume of a run that was terminated
\* (at any point) completes, the output holds exactly one record for every
\* non-filtered input id.
C6_RerunCompletesTheOutput ==
  RerunCompleted => \A t \in UnfilteredIds : Cardinality(RecordsOf(t)) = 1

\* C6 for an input whose ids differ from one another after trimming.
C6_RerunCompletesTheOutputDistinctIds ==
  (RerunCompleted /\ DistinctTrimmedIds) =>
    \A t \in UnfilteredIds : Cardinality(RecordsOf(t)) = 1

\* C7: a run never gets past an input row whose id is missing or blank: it
\* makes no provider call and writes no record for that row or any later
\* one, neither of them ever leaves PENDING, the run does not complete, and
\* if the row is the first the output file stays empty.
C7_MissingIdAbortsRun ==
  \A i \in Rows :
    BlankId(i) =>
      /\ idx <= i
      /\ pc # "done"
      /\ (idx = i => pc \in { "idle", "next", "aborted", "killed" })
      /\ \A j \in Rows :
           j >= i => (~called[j] /\ WrittenFor(j) = {} /\ status[j] = "PENDING")
      /\ (i = 1 => out_file = <<>>)

\* The run wrote the record of the first row and aborted at the second,
\* whose id is one blank.
C7_Witness ==
  /\ Len(input) = 2 /\ input[2] = << " " >>
  /\ pc = "aborted" /\ fatal = "missing_id" /\ idx = 2
  /\ Len(out_file) = 1 /\ wrote = 1 /\ status[1] \in { "SUCCEEDED", "FAILED" }
  /\ ~called[2] /\ status[2] = "PENDING"

\* C8 as stated: without the provider's API key in the environment no
\* driver processes a record, and no record -- in particular no FAILED one --
\* is written.  (Stated for runs whose retry loop makes at least one attempt.)
C8_MissingKeyIsFatalAtStartup ==
  (~env_key /\ args.max_retries >= 1) =>
    /\ out_file = <<>>
    /\ \A i \in Rows : status[i] \notin { "SUCCEEDED", "FAILED" }

\* What holds instead: gemini_yesno_batch aborts at startup; llm_yesno_batch
\* writes for every row it does not skip a FAILED record whose error is the
\* message of require_env.
C8_MissingKeyPerDriver ==
  ~env_key =>
    /\ driver = "gemini" => (out_file = <<>> /\ pc \in { "idle", "aborted" })
    /\ \A k \in 1..Len(out_file) :
         /\ out_file[k].error = (IF args.max_retries >= 1 THEN MissingKeyError ELSE Null)
         /\ out_file[k].answers = AllZero

Settled(i) == status[i] \in { "SKIPPED", "SUCCEEDED", "FAILED" }

\* C9: a run that nobody terminates from outside ends; it ends before the
\* end of the input only at a row whose id is missing or, before any row,
\* for a missing key -- never for a failure of a record; and a completed
\* non-dry-run run has brought every row to SKIPPED, SUCCEEDED or FAILED.
C9_RunEndsAndFailuresDoNotStopIt ==
  /\ (~Stopped) ~> (pc \in { "done", "aborted" })
  /\ [](pc = "aborted" =>
          \/ fatal = "missing_id" /\ idx \in Rows /\ BlankId(idx)
          \/ fatal = "missing_key" /\ ~env_key /\ \A i \in Rows : status[i] = "PENDING")
  /\ []((pc = "done" /\ ~args.dry_run) => \A i \in Rows : Settled(i))

\* The first row failed with every attempt used, the second succeeded and
\* the run completed.
C9_Witness ==
  /\ pc = "done" /\ Len(input) = 2 /\ args.max_retries = 2
  /\ status[1] = "FAILED" /\ out_file[1].error # Null
  /\ status[2] = "SUCCEEDED"

\* A response of the expected shape whose answers gives each code it names
\* the integer 0 or 1 and whose justification is a string.
ValidResponse(obj) ==
  /\ obj.top = "dict" /\ obj.has_answers /\ obj.ans_dict
  /\ obj.has_just /\ obj.just.t = "str"
  /\ \A q \in DOMAIN obj.ans : obj.ans[q].t = "int" /\ obj.ans[q].n \in { 0, 1 }

\* For a valid response the normalizer returns, for every code, the value
\* the response gives it, or 0 if the response does not name it.
ValuesKept ==
  /\ fn_ret.res.ok
  /\ \A q \in QidSet :
       fn_ret.res.val.answers[q] =
         (IF q \in DOMAIN fn_arg.obj.ans THEN fn_arg.obj.ans[q].n ELSE 0)

\* C11 as stated: for a valid response each code given as the integer 0 or 1
\* comes back unchanged, a missing code comes back as 0 whatever other codes
\* are missing, and the response's justification string is returned as it is.
C11_ValuesAndJustificationKept ==
  (fn_ret.called /\ ValidResponse(fn_arg.obj)) =>
    (ValuesKept /\ fn_ret.res.val.justification = fn_arg.obj.just.s)

\* C11 amended: the same, with the justification returned without its
\* leading and trailing blanks.
C11_ValuesKeptJustificationTrimmed ==
  (fn_ret.called /\ ValidResponse(fn_arg.obj)) =>
    (ValuesKept /\ fn_ret.res.val.justification = Trimmed(fn_arg.obj.just.s))

\* A1 given as 1, B10 missing, justification " ok ": 1, 0 and "ok" returned.
C11_Witness ==
  /\ fn_ret.called /\ ValidResponse(fn_arg.obj)
  /\ DOMAIN fn_arg.obj.ans = { "A1" } /\ fn_arg.obj.ans["A1"] = JInt(1)
  /\ fn_arg.obj.just = JStr(<< " ", "o", "k", " " >>)
  /\ fn_ret.res.ok
  /\ fn_ret.res.val.answers["A1"] = 1 /\ fn_ret.res.val.answers["B10"] = 0
  /\ fn_ret.res.val.justification = << "o", "k" >>

\* The value is boolean true, the number 1, or a string that is "1" once
\* its leading and trailing blanks are removed.
MeansYes(v) ==
  \/ (v.t = "bool" /\ v.n = 1)
  \/ (v.t = "int" /\ v.n = 1)
  \/ (v.t = "float" /\ v.n = 10)
  \/ (v.t = "str" /\ Trimmed(v.s) = << "1" >>)

\* The value the response gives code q (Missing if it gives none).
GivenFor(obj, q) == IF q \in DOMAIN obj.ans THEN obj.ans[q] ELSE Missing

\* Every normalized value is 1 exactly when the response's value means yes.
OneIffMeansYes ==
  \A q \in QidSet :
    fn_ret.res.val.answers[q] = (IF MeansYes(GivenFor(fn_arg.obj, q)) THEN 1 ELSE 0)

\* C12 as stated: whenever the normalizer returns an answer set for a
\* response whose answers is a mapping, the normalized value of every code
\* is 1 exactly when the response's value is true, the number 1 or a string
\* equal to "1" after trimming, and 0 for every other value.
C12_OneExactlyForTrueOneOrStringOne ==
  (fn_ret.called /\ fn_ret.res.ok /\ fn_arg.obj.top = "dict" /\ fn_arg.obj.ans_dict)
    => OneIffMeansYes

\* C12 holds of gemini_yesno_batch.normalize_answers.
C12_Gemini ==
  fn_arg.impl = "gemini" => C12_OneExactlyForTrueOneOrStringOne

\* C12 holds of llm_yesno_batch.normalize_answers for responses without a
\* float other than 1.0.
C12_LlmWithoutFloats ==
  (\A q \in DOMAIN fn_arg.obj.ans :
     fn_arg.obj.ans[q].t = "float" => fn_arg.obj.ans[q].n = 10)
    => C12_OneExactlyForTrueOneOrStringOne

\* The response is a mapping whose answers field is a mapping.
WellShaped(obj) == obj.top = "dict" /\ obj.has_answers /\ obj.ans_dict

\* C13 as stated: for a mapping whose answers field is a mapping the
\* normalizer returns a result whatever the answer values are, and the
\* justification it returns is empty when the response's justification is
\* absent or not a string.
C13_NeverFailsOnContent ==
  (fn_ret.called /\ WellShaped(fn_arg.obj)) =>
    /\ fn_ret.res.ok
    /\ (~fn_arg.obj.has_just \/ fn_arg.obj.just.t # "str")
         => fn_ret.res.val.justification = <<>>

\* C13 holds of gemini_yesno_batch.normalize_answers.
C13_Gemini ==
  fn_arg.impl = "gemini" => C13_NeverFailsOnContent

\* C13 holds of llm_yesno_batch.normalize_answers for responses that have a
\* justification key and no NaN among their answer values.
C13_LlmWithJustificationKey ==
  (/\ fn_arg.obj.has_just
   /\ \A q \in DOMAIN fn_arg.obj.ans : fn_arg.obj.ans[q].t # "nan")
    => C13_NeverFailsOnContent

\* C14 as stated: the normalizer fails whenever the response is not a
\* mapping or its answers field is absent or not a mapping; it returns no
\* answer set for such a response.
C14_BadShapeFails ==
  (fn_ret.called /\ ~WellShaped(fn_arg.obj)) => ~fn_ret.res.ok

\* C14 holds of llm_yesno_batch.normalize_answers, whose failure is a
\* ValueError.
C14_Llm ==
  (fn_ret.called /\ fn_arg.impl = "llm" /\ ~WellShaped(fn_arg.obj)) =>
    (~fn_ret.res.ok /\ fn_ret.res.err = "ValueError")

\* The text holds a "{" followed later by a "}".
BraceRegion(s) ==
  \E i, j \in 1..Len(s) : i < j /\ s[i] = "{" /\ s[j] = "}"

\* The text from its first "{" to its last "}".
FirstToLastBrace(s) ==
  SubSeq(s, CHOOSE i \in 1..Len(s) : s[i] = "{" /\ \A k \in 1..(i - 1) : s[k] # "{",
            CHOOSE j \in 1..Len(s) : s[j] = "}" /\ \A k \in (j + 1)..Len(s) : s[k] # "}")

RECURSIVE Concat(_)
Concat(cs) == IF cs = << >> THEN << >> ELSE Head(cs) \o Concat(Tail(cs))

\* C20: the chunks of a text for chunk size N >= 1, put together in order,
\* are the text; every chunk but the last has exactly N characters and the
\* last has between 1 and N (so no chunk is empty and none overlaps).
C20_ChunksPartitionTheText ==
  fn_ret.called =>
    LET cs == fn_ret.chunks
        N == fn_arg.max_chars
    IN  /\ Concat(cs) = fn_arg.text
        /\ \A k \in 1..(Len(cs) - 1) : Len(cs[k]) = N
        /\ cs # << >> => (1 <= Len(cs[Len(cs)]) /\ Len(cs[Len(cs)]) <= N)

\* A text of 4 characters cut with N = 3: a chunk of 3 and a chunk of 1.
C20_Witness ==
  /\ fn_ret.called /\ fn_arg.max_chars = 3
  /\ fn_arg.text = << "a", "b", "b", "a" >>
  /\ fn_ret.chunks = << << "a", "b", "b" >>, << "a" >> >>

\* --------------------------------------------------------------- C16
\* C16: whenever the chunked adapter returns, its final answer for each code
\* is 1 exactly when the normalized answer of at least one chunk of that
\* attempt is 1, and 0 otherwise, whatever the number of chunks and the
\* order of their answers; every chunk of the article has then answered.
C16_FinalIsOrOverChunks ==
  (fn_ret.pc \in { "write", "done" } /\ fn_ret.parsed.some) =>
    /\ Len(fn_ret.chunk_answers) = Len(fn_arg.chunks)
    /\ \A q \in QidSet :
         /\ fn_ret.final[q] \in { 0, 1 }
         /\ fn_ret.final[q] = 1 <=>
              \E c \in 1..Len(fn_ret.chunk_answers) : fn_ret.chunk_answers[c][q] = 1
    /\ fn_ret.parsed.answers = fn_ret.final

\* Two chunks, each with one code the other lacks: A1 comes from the first
\* chunk only, B10 from the second only, and the final answer has both.
C16_Witness ==
  /\ fn_ret.pc = "done" /\ fn_ret.parsed.some
  /\ Len(fn_ret.chunk_answers) = 2
  /\ fn_ret.chunk_answers[1]["A1"] = 1 /\ fn_ret.chunk_answers[2]["A1"] = 0
  /\ fn_ret.chunk_answers[1]["B10"] = 0 /\ fn_ret.chunk_answers[2]["B10"] = 1
  /\ fn_ret.final["A1"] = 1 /\ fn_ret.final["B10"] = 1 /\ fn_ret.final["A2"] = 0

\* --------------------------------------------------------------- C19
\* C19: an attempt in which a chunk's call failed returns no aggregated
\* answers: when the retry loop holds a parsed result, every chunk call of
\* that attempt succeeded; and when every attempt made was ended by a
\* failed chunk, the record written has a non-null error and all-zero
\* answers.
C19_FailedChunkFailsTheAttempt ==
  /\ fn_ret.parsed.some =>
       /\ \A c \in 1..Len(fn_ret.log) : fn_ret.log[c] = "ok"
       /\ Len(fn_ret.log) = Len(fn_arg.chunks)
  /\ (fn_ret.pc = "done" /\ fn_ret.natt >= 1 /\ fn_ret.nfailed = fn_ret.natt) =>
       /\ fn_ret.record[1].error # Null
       /\ fn_ret.record[1].answers = AllZero
       /\ fn_ret.record[1].justification = << >>

\* Two attempts on two chunks, each ended by a chunk without text after the
\* other chunk answered 1 for A1: the record is a failure with zero answers.
C19_Witness ==
  /\ fn_ret.pc = "done" /\ fn_arg.max_retries = 2 /\ Len(fn_arg.chunks) = 2
  /\ fn_ret.nfailed = 2 /\ fn_ret.log = << "ok", "failed" >>
  /\ fn_ret.chunk_answers[1]["A1"] = 1
  /\ fn_ret.record[1].error = ChunkEmptyTextError
  /\ fn_ret.record[1].answers = AllZero

\* --------------------------------------------------------------- C17
\* C17: in a --dry-run run no provider call is made and no record is
\* appended, whatever the input and the --skip-ids, --only-ids and --resume
\* filters: no row is called, the retry loop is never entered, nothing is
\* counted as written, and no step of the run changes the output file.
C17_DryRunCallsAndWritesNothing ==
  /\ [](args.dry_run =>
          /\ \A i \in Rows : ~called[i]
          /\ wrote = 0 /\ natt = 0
          /\ pc \notin { "call", "backoff", "write", "pace" })
  /\ [][args'.dry_run => out_file' = out_file]_vars

\* A finished --dry-run --resume run over an output that has records: one
\* row was skipped, one previewed, and the output is as it was.
C17_Witness ==
  /\ pc = "done" /\ args.dry_run /\ args.resume
  /\ out_file # << >>
  /\ \E i \in Rows : status[i] = "PREVIEWED"
  /\ \E i \in Rows : status[i] = "SKIPPED"

\* --------------------------------------------------------------- C18
\* The response text is JSON for the driver's parser and has the shape the
\* normalizer contract accepts (a mapping whose answers field is a mapping).
ParsesAndNormalizes(o) ==
  /\ ~o.raised /\ o.text.kind # "empty"
  /\ LET p == IF driver = "llm" THEN parse_json_strict(o.text) ELSE json_loads(o.text)
     IN  p.ok /\ WellShaped(p.val)

\* The attempts of the retry range whose response satisfies good.
Min(S) == CHOOSE k \in S : \A j \in S : k <= j

AttemptsDue(good(_)) ==
  LET hits == { k \in 1..args.max_retries : good(fn_arg[k]) }
  IN  IF hits = {} THEN args.max_retries ELSE Min(hits)

\* C18 as stated: a response that does not parse or has not the contract's
\* shape uses up an attempt like a failed call.  For the record written,
\* the number of attempts made is the index of the first attempt whose
\* response parses and normalizes, or max_retries if there is none; and the
\* number never exceeds max_retries.
C18_AttemptsUntilFirstGoodResponse ==
  /\ natt <= args.max_retries
  /\ pc \in { "pace", "done" } => natt = AttemptsDue(ParsesAndNormalizes)

\* The retry loop itself counts as C18 says: the number of attempts made is
\* the index of the first attempt whose try body (call, parse,
\* normalization) raises nothing, or max_retries.
TryBodySucceeds(o) == TryBody(o).ok

C18_AttemptsUntilTryBodySucceeds ==
  /\ natt <= args.max_retries
  /\ pc \in { "pace", "done" } => natt = AttemptsDue(TryBodySucceeds)

\* With llm_yesno_batch and these responses C18 holds as stated.
C18_Llm ==
  driver = "llm" => C18_AttemptsUntilFirstGoodResponse

\* --------------------------------------------------------------- C22
IsPrefixOf(s, t) == Len(s) <= Len(t) /\ SubSeq(t, 1, Len(s)) = s

\* C22: the output file is append-only.  Every step of every run, and every
\* start of a run, leaves the records the file held in place, unchanged and
\* in the same order; a step adds at most one record, at the end.
C22_OutputIsAppendOnly ==
  [][/\ IsPrefixOf(out_file, out_file')
     /\ Len(out_file') <= Len(out_file) + 1]_vars

\* A second run has added a record behind those of the first run.
C22_Witness ==
  /\ run = 2 /\ wrote >= 1 /\ Len(out_file) > wrote
  /\ pc = "pace"

\* --------------------------------------------------------------- C23
\* The output file as the current run found it.
FileAtStart == SubSeq(out_file, 1, Len(out_file) - wrote)

\* C23: the done-set is built once, at startup, from the output file as it
\* then is (empty without --resume), and no step of the run changes it: at
\* every point of a live run that got past its startup it is what load_done_ids
\* gives for the file's content at startup, whatever the run has written
\* since, so a row is skipped by the resume test exactly when its id was in
\* the file at startup.
C23_DoneSetBuiltOnceAtStartup ==
  /\ []((run >= 1 /\ fatal # "missing_key" /\ pc # "killed") =>
          /\ done_ids = IF args.resume THEN load_done_ids(FileAtStart) ELSE {}
          /\ \A i \in Rows :
               (Passed(i) /\ NamesNothing(args.only) /\ NamesNothing(args.skip)) =>
                 (status[i] = "SKIPPED" <=>
                    (args.resume /\ TrimOf(input[i]) \in IdsAtStart)))
  /\ [][(run' = run /\ pc' # "killed") => done_ids' = done_ids]_vars

\* A run with --resume wrote a record for the id y and then, for a later row
\* whose id is y again after trimming, wrote a second one: y was not in the
\* done-set, which still is as built at startup.
C23_Witness ==
  /\ args.resume /\ wrote = 2 /\ pc = "pace"
  /\ out_file[Len(out_file)].custom_id = out_file[Len(out_file) - 1].custom_id
  /\ out_file[Len(out_file)].custom_id \notin done_ids

\* --------------------------------------------------------------- C25
\* C25: every write of a record, of a success or of a failure, is followed
\* at once by the pacing sleep, and only the end of that sleep advances the
\* driver to the next row: a step that changes the output file leaves the
\* driver in the sleep; while it sleeps no provider call is made and
\* nothing is written; and no live driver moves on from a row it has
\* written except out of the sleep.
C25_PacingSleepAfterEveryWrite ==
  /\ [][out_file' # out_file =>
          (pc' = "pace" /\ idx' = idx /\ status'[idx] \in { "SUCCEEDED", "FAILED" })]_vars
  /\ [][(pc = "pace" /\ pc' # "killed") =>
          /\ pc' = "next" /\ idx' = idx + 1
          /\ out_file' = out_file /\ called' = called /\ natt' = natt]_vars
  /\ [][(run' = run /\ pc' # "killed" /\ idx' # idx) =>
          (status[idx] \in { "SUCCEEDED", "FAILED" } => pc = "pace")]_vars

\* The driver sleeps after writing a failed record while another row waits.
C25_Witness ==
  /\ pc = "pace" /\ status[idx] = "FAILED" /\ idx < Len(input)
  /\ out_file[Len(out_file)].error # Null

\* --------------------------------------------------------------- C28
\* C28: a run with --resume does not retry a record that an earlier run on
\* the same output file wrote as a failure.  For every record with a
\* non-null error that the file held when the run started, its id is in the
\* done-set, the run makes no provider call and writes no record for any
\* input row with that id, and the run adds no record with that id, so the
\* failed record has no other record beside it than the file already held.
C28_FailedRecordIsNotRetried ==
  (run >= 1 /\ args.resume /\ fatal # "missing_key" /\ pc # "killed") =>
    \A k \in 1..Len(FileAtStart) :
      out_file[k].error # Null =>
        /\ out_file[k].custom_id \in done_ids
        /\ \A i \in Rows :
             TrimOf(input[i]) = out_file[k].custom_id =>
               (~called[i] /\ WrittenFor(i) = {})
        /\ \A j \in ThisRun : out_file[j].custom_id # out_file[k].custom_id

\* A completed second run with --resume, after a first run that was stopped
\* once it had written the first row as a failure: it skipped that row and
\* wrote the other one.
C28_Witness ==
  /\ run = 2 /\ args.resume /\ ~args.dry_run /\ pc = "done"
  /\ Len(out_file) = 2 /\ wrote = 1
  /\ out_file[1].error # Null /\ out_file[1].row = 1
  /\ status[1] = "SKIPPED" /\ ~called[1]
  /\ out_file[2].row = 2

\* --------------------------------------------------------------- C21
\* The records of the output for the id t and the model m.
RecordsFor(t, m) ==
  { k \in 1..Len(out_file) : out_file[k].custom_id = t /\ out_file[k].model = m }

\* C21 as stated: when a run with --resume has completed, on an output file
\* that only runs with --resume have written, the output holds exactly one
\* record for every id the run was asked to annotate (every input id the
\* only/skip lists let through) with the run's model.
C21_OneRecordPerIdAndModel ==
  (run >= 1 /\ pc = "done" /\ args.resume) =>
    \A t \in UnfilteredIds : Cardinality(RecordsFor(t, args.model)) = 1

\* C21 for an output file that all runs wrote with one and the same model.
C21_OneRecordPerIdOneModel ==
  (run >= 1 /\ pc = "done" /\ args.resume
     /\ \A k \in 1..Len(out_file) : out_file[k].model = args.model) =>
    \A t \in UnfilteredIds : Cardinality(RecordsFor(t, args.model)) = 1

\* --------------------------------------------------------------- C24
\* Every failed attempt so far has been followed by its sleep before the
\* next attempt began.
SleepAfterEveryFailure ==
  /\ fn_ret.pc = "call" => Len(fn_ret.sleeps) = fn_ret.attempt - 1
  /\ fn_ret.pc = "sleep" => Len(fn_ret.sleeps) = fn_ret.attempt - 1
  /\ (fn_ret.pc = "out" /\ ~fn_ret.ok) => Len(fn_ret.sleeps) = fn_arg.max_retries
  /\ (fn_ret.pc = "out" /\ fn_ret.ok) => Len(fn_ret.sleeps) = fn_ret.attempt - 1

\* C24 as stated: a sleep follows every failed attempt, and for every k the
\* sleep after failed attempt k+1 is longer than the sleep after failed
\* attempt k.
C24_BackoffIncreasesForEveryAttempt ==
  /\ SleepAfterEveryFailure
  /\ \A k \in 1..(Len(fn_ret.sleeps) - 1) : fn_ret.sleeps[k + 1] > fn_ret.sleeps[k]

\* C24: a sleep follows every failed attempt; the sleep after failed attempt
\* k lasts min(5, k) seconds, so for every k the sleep after failed attempt
\* k+1 is at least as long as the sleep after failed attempt k, and longer
\* as long as that one is shorter than the cap of 5 seconds.
C24_BackoffIncreasesUpToCap ==
  /\ SleepAfterEveryFailure
  /\ \A k \in 1..Len(fn_ret.sleeps) :
       fn_ret.sleeps[k] = IF k < BackoffCap THEN k ELSE BackoffCap
  /\ \A k \in 1..(Len(fn_ret.sleeps) - 1) :
       /\ fn_ret.sleeps[k + 1] >= fn_ret.sleeps[k]
       /\ fn_ret.sleeps[k] < BackoffCap => fn_ret.sleeps[k + 1] > fn_ret.sleeps[k]

\* Six attempts failed: the sleeps grew up to the cap and the sixth is as
\* long as the fifth.
C24_Witness ==
  /\ Len(fn_ret.sleeps) = 6 /\ fn_ret.pc = "call"
  /\ fn_ret.sleeps[4] < fn_ret.sleeps[5]
  /\ fn_ret.sleeps[5] = fn_ret.sleeps[6]

\* --------------------------------------------------------------- C26
\* Chunk c of the attempt answered 1 for some code.
NonTrivial(c) == \E q \in QidSet : fn_ret.chunk_answers[c][q] = 1

\* The chunks before c among which fewer than two are non-trivial, c being
\* non-trivial itself: c is one of the first two non-trivial chunks.
AmongFirstTwoNonTrivial(c) ==
  /\ NonTrivial(c)
  /\ Cardinality({ b \in 1..(c - 1) : NonTrivial(b) }) < 2

RECURSIVE ConcatFrom(_, _)
\* The justifications of the first two non-trivial chunks from chunk c on,
\* one after the other.
ConcatFrom(justs, c) ==
  IF c > Len(justs) THEN << >>
  ELSE (IF AmongFirstTwoNonTrivial(c) THEN justs[c] ELSE << >>) \o ConcatFrom(justs, c + 1)

\* s without the line breaks put between the parts.
WithoutBreaks(s) == SelectSeq(s, LAMBDA ch : ch # "\n")

\* C26 as stated: the justification the chunked adapter returns is made of
\* the justification texts of the first two chunks (at most) that answered
\* 1 for some code, in chunk order, and of no other chunk's text.
C26_JustificationOfFirstTwoNonTrivialChunks ==
  (fn_ret.pc \in { "write", "done" } /\ fn_ret.parsed.some) =>
    WithoutBreaks(fn_ret.parsed.justification) = ConcatFrom(fn_ret.chunk_justs, 1)

\* C26 for attempts in which a chunk gave a justification exactly when it
\* answered 1 for some code.
C26_WhenJustifiedIffNonTrivial ==
  (fn_ret.pc \in { "write", "done" } /\ fn_ret.parsed.some
     /\ \A c \in 1..Len(fn_ret.chunk_justs) :
          fn_ret.chunk_justs[c] # << >> <=> NonTrivial(c)) =>
    WithoutBreaks(fn_ret.parsed.justification) = ConcatFrom(fn_ret.chunk_justs, 1)

\* --------------------------------------------------------------- C27
\* C27 as stated, for a retry loop that has a body to run: a record written
\* with error = null was preceded by at least one call to the provider
\* service for it, whatever the article text.
C27_NoSuccessWithoutCall ==
  (fn_ret.pc = "done" /\ fn_arg.max_retries >= 1 /\ fn_ret.record[1].error = Null) =>
    fn_ret.ncalls >= 1

\* C27 for articles whose text has a character other than a line break.
C27_NoSuccessWithoutCallNonEmptyText ==
  (fn_ret.pc = "done" /\ fn_arg.max_retries >= 1 /\ fn_ret.record[1].error = Null
     /\ strip_newlines(fn_arg.text) # << >>) =>
    fn_ret.ncalls >= Len(fn_arg.chunks)

\* --------------------------------------------------------------- C30
\* What the script other than fn_arg.impl gives for the same response.
OtherNormalizer ==
  IF fn_arg.impl = "llm"
  THEN normalize_answers_gemini(fn_arg.obj)
  ELSE normalize_answers_llm(fn_arg.obj)

\* C30 as stated: for every response on which both normalize_answers return
\* a result, the result of the one is the result of the other: the same
\* answer set and the same justification.
C30_NormalizersAgree ==
  (fn_ret.called /\ fn_ret.res.ok /\ OtherNormalizer.ok) =>
    /\ fn_ret.res.val.answers = OtherNormalizer.val.answers
    /\ fn_ret.res.val.justification = OtherNormalizer.val.justification

\* C30 for responses none of whose answer values is a float strictly
\* between 1 and 2.
C30_NormalizersAgreeWithoutFractions ==
  (\A q \in DOMAIN fn_arg.obj.ans :
     fn_arg.obj.ans[q].t = "float" => ~(10 < fn_arg.obj.ans[q].n /\ fn_arg.obj.ans[q].n < 20))
    => C30_NormalizersAgree

\* --------------------------------------------------------------- C29
\* What follows the QUESTIONS: header in the prompt as built: the rendered
\* question list and the closing instructions.
QuestionBlock == q_lines \o << "\n", "\n" >> \o ReturnInstructions

\* The recovery gave the text that went into the prompt, without its leading
\* and trailing line breaks, and the question block of the prompt.
RecoversTextAndQuestions ==
  /\ fn_ret.res.ok
  /\ fn_ret.res.val.article_text = strip_newlines(fn_arg.text)
  /\ fn_ret.res.val.q_lines = QuestionBlock

\* C29 as stated: for every article text, the text call_gemini recovers from
\* the built prompt is the text given to build_user_prompt up to leading and
\* trailing line breaks, and the question block it reuses is the one
\* rendered into the prompt, also when the text contains the prompt's
\* delimiters.
C29_PromptRecovery ==
  fn_ret.called => RecoversTextAndQuestions

\* C29 for article texts in which QUESTIONS: is nowhere followed by a line
\* break and a triple quote nowhere by two line breaks and QUESTIONS:.
C29_PromptRecoveryWithoutDelimiters ==
  (fn_ret.called
     /\ FindSeq(fn_arg.text \o << "\n" >>, << QuestionsWord, "\n" >>) = 0
     /\ FindSeq(fn_arg.text, marker_end) = 0)
    => RecoversTextAndQuestions

====
